---- MODULE Spec2Model ----
(***************************************************************************)
(* Model of the evaluation hooks of themailman05/automatique:              *)
(*   hooks/iter_eval.py   dual-reviewer iteration eval with reconciliation *)
(*   hooks/ci_comment.py  single-reviewer PR scorer posting a PR comment    *)
(*                                                                         *)
(* Python values are encoded as follows.                                   *)
(*   - a dict is a function whose DOMAIN is its set of keys;               *)
(*     {} is the function with the empty domain;                           *)
(*   - the value under a dimension key is a record `entry`:                *)
(*       isdict      the value is a JSON object                            *)
(*       score_type  "num" | "str" | "missing"  (key "score")              *)
(*       score       the score in thousandths (0.875 is 875)               *)
(*       has_reason, reason                     (key "reason")             *)
(*   - the value under "verdict" is a string; Unhashable stands for a      *)
(*     JSON list or object there;                                          *)
(*   - texts are abstract: "" is the empty string, anything else a         *)
(*     non-empty text (slicing keeps emptiness).                           *)
(* Scores are multiples of 1/8 so that every float sum is exact and        *)
(* round(x, 2) is round-half-even on the exact mean for up to four inputs. *)
(***************************************************************************)
EXTENDS Integers, Sequences, FiniteSets, TLC

\* Longest list handed to reconcile in the pure-function specification.
MaxEvals == 3

MODELS == <<"claude-sonnet-4-20250514", "gpt-4o-2024-11-20">>

\* dims of reconcile, in the order the loop visits them
dims == <<"requirements_met", "acceptance_criteria", "no_regressions",
          "code_quality", "completeness", "overall">>

DimSet == {dims[k] : k \in 1..Len(dims)}

\* Stand-in for a verdict value that is a JSON list or object (not hashable).
Unhashable == "<unhashable>"

EmptyDict == [k \in {} |-> 0]

------------------------------------------------------------------------------
(* Values a reviewer can put under a dimension key *)

NumEntry(s) ==
    [isdict |-> TRUE, score_type |-> "num", score |-> s,
     has_reason |-> TRUE, reason |-> "ok"]

NumEntryNoReason(s) ==
    [isdict |-> TRUE, score_type |-> "num", score |-> s,
     has_reason |-> FALSE, reason |-> ""]

NoScoreEntry ==
    [isdict |-> TRUE, score_type |-> "missing", score |-> 0,
     has_reason |-> TRUE, reason |-> "ok"]

StrScoreEntry ==
    [isdict |-> TRUE, score_type |-> "str", score |-> 0,
     has_reason |-> TRUE, reason |-> "ok"]

NonDictEntry ==
    [isdict |-> FALSE, score_type |-> "missing", score |-> 0,
     has_reason |-> FALSE, reason |-> ""]

------------------------------------------------------------------------------
(* reconcile *)

RECURSIVE SumScores(_)
SumScores(s) ==
    IF s = <<>> THEN 0 ELSE Head(s).score + SumScores(Tail(s))

\* Mutant: the mean cut to two decimals instead of rounded.
Round2_truncating(total, n) == 10 * (total \div (10 * n))

\* round(total / n, 2) in thousandths: nearest hundredth, ties to even
Round2(total, n) ==
    LET q == total \div (10 * n)
        r == total % (10 * n)
    IN  IF 2 * r < 10 * n THEN 10 * q
        ELSE IF 2 * r > 10 * n THEN 10 * (q + 1)
        ELSE IF q % 2 = 0 THEN 10 * q ELSE 10 * (q + 1)

\* [e[dim] for e in evals if dim in e and isinstance(e[dim], dict)]
scores_for_dim(evals, dim) ==
    LET has == SelectSeq(evals, LAMBDA e : dim \in DOMAIN e /\ e[dim].isdict)
    IN  [k \in 1..Len(has) |-> has[k][dim]]

\* the exception sum(s["score"] ...) raises on this list, "" when none
DimError(sfd) ==
    LET bad == {k \in 1..Len(sfd) : sfd[k].score_type # "num"}
    IN  IF bad = {} THEN ""
        ELSE LET k == CHOOSE x \in bad : \A y \in bad : x <= y
             IN  IF sfd[k].score_type = "missing" THEN "KeyError"
                 ELSE "TypeError"

\* result[dim] = {"score": round(avg_score, 2), "reason": reasons}
\* (the joined reason is kept as the list of its " | "-separated parts)
ReconciledDim(sfd) ==
    [score  |-> Round2(SumScores(sfd), Len(sfd)),
     reason |-> [k \in 1..Len(sfd) |->
                    IF sfd[k].has_reason THEN sfd[k].reason ELSE "N/A"]]

\* e.get("verdict", "NEEDS_WORK")
GetVerdict(e) ==
    IF "verdict" \in DOMAIN e THEN e["verdict"] ELSE "NEEDS_WORK"

\* verdict_order.get(v, 1)
verdict_order(v) ==
    CASE v = "FAIL" -> 0
      [] v = "NEEDS_WORK" -> 1
      [] v = "PASS" -> 2
      [] OTHER -> 1

\* Mutant: max in place of min, the most lenient verdict wins.
MinVerdict_as_max(verdicts) ==
    LET k == CHOOSE x \in 1..Len(verdicts) :
                 \A y \in 1..Len(verdicts) :
                    verdict_order(verdicts[x]) >= verdict_order(verdicts[y])
    IN  verdicts[k]

\* min(verdicts, key=...): the first element whose key is minimal
MinVerdict(verdicts) ==
    LET k == CHOOSE x \in 1..Len(verdicts) :
                 /\ \A y \in 1..Len(verdicts) :
                        verdict_order(verdicts[x]) <= verdict_order(verdicts[y])
                 /\ \A y \in 1..(x - 1) :
                        verdict_order(verdicts[y]) > verdict_order(verdicts[x])
    IN  verdicts[k]

\* the body of reconcile after the `if not evals` guard
ReconcileNonEmpty(evals) ==
    LET errs == [k \in 1..Len(dims) |-> DimError(scores_for_dim(evals, dims[k]))]
        badk == {k \in 1..Len(dims) : errs[k] # ""}
        present == {d \in DimSet : Len(scores_for_dim(evals, d)) > 0}
        result == [d \in present |-> ReconciledDim(scores_for_dim(evals, d))]
        verdicts == [k \in 1..Len(evals) |-> GetVerdict(evals[k])]
    IN  IF badk # {}
        THEN [exc |-> errs[CHOOSE x \in badk : \A y \in badk : x <= y],
              value |-> EmptyDict]
        ELSE IF \E k \in 1..Len(verdicts) : verdicts[k] = Unhashable
        THEN [exc |-> "TypeError", value |-> EmptyDict]
        ELSE [exc |-> "", value |-> result @@ ("verdict" :> MinVerdict(verdicts))]

\* Mutant: reconcile without its `if not evals` guard, so that min([]) raises.
reconcile_unguarded(evals) ==
    IF evals = <<>> THEN [exc |-> "ValueError", value |-> EmptyDict]
    ELSE ReconcileNonEmpty(evals)

\* reconcile(evals): exc is "" when it returns, else the exception raised
reconcile(evals) ==
    IF evals = <<>> THEN [exc |-> "", value |-> EmptyDict]
    ELSE ReconcileNonEmpty(evals)

------------------------------------------------------------------------------
(* Reviewer responses *)

\* A reviewer's raw text: an optional fenced block, optional prose around it,
\* and the JSON the block (or the whole text) holds.
\*   fence  "json" (a ```json block) | "plain" (a ``` block) | "none"
\*   prose  text outside the JSON
\*   json   "invalid" | "nonobject" (null, list, number, string) | "object"
RawText(fence, prose, json, obj) ==
    [fence |-> fence, prose |-> prose, json |-> json, obj |-> obj]

Full(s) == [d \in DimSet |-> NumEntry(s)]

WithVerdict(o, v) == o @@ ("verdict" :> v)

\* dimension layouts a reviewer can answer with
Layouts ==
    { Full(875),
      Full(500),
      [d \in DimSet \ {"completeness"} |-> NumEntry(750)],
      [d \in {"overall"} |-> NumEntry(625)],
      [d \in DimSet |-> IF d = "overall" THEN NoScoreEntry ELSE NumEntry(875)],
      [d \in DimSet |-> IF d = "requirements_met" THEN StrScoreEntry ELSE NumEntry(875)],
      [d \in DimSet |-> IF d = "overall" THEN NonDictEntry ELSE NumEntryNoReason(125)] }

VerdictValues == {"PASS", "NEEDS_WORK", "FAIL", "MAYBE", Unhashable}

\* decoded objects of the pipeline's reviewers
Objects ==
    {WithVerdict(Full(875), v) : v \in VerdictValues}
    \cup {WithVerdict(o, "PASS") : o \in Layouts}
    \cup {WithVerdict(Full(500), "FAIL"), Full(875), EmptyDict,
          ("error" :> "overloaded")}

Responses ==
    {[status |-> "raise", raw |-> RawText("none", FALSE, "invalid", EmptyDict)]}
    \cup {[status |-> "ok", raw |-> RawText("json", TRUE, "object", o)] : o \in Objects}
    \cup {[status |-> "ok", raw |-> RawText(f, p, "object", WithVerdict(Full(500), "NEEDS_WORK"))] :
             f \in {"plain", "none"}, p \in BOOLEAN}
    \cup {[status |-> "ok", raw |-> RawText("json", TRUE, j, EmptyDict)] :
             j \in {"invalid", "nonobject"}}

\* json.loads(text.strip()): exc "" and the value, or the decode error
json_loads(decodable, json, obj) ==
    IF ~decodable \/ json = "invalid"
    THEN [exc |-> "JSONDecodeError", isdict |-> FALSE, value |-> EmptyDict]
    ELSE [exc |-> "", isdict |-> json = "object",
          value |-> IF json = "object" THEN obj ELSE EmptyDict]

\* parse_scores(raw): the ```json block, else the first ``` block, else the
\* whole text, handed to json.loads
parse_scores(raw) ==
    IF raw.fence = "json" THEN json_loads(TRUE, raw.json, raw.obj)
    ELSE IF raw.fence = "plain" THEN json_loads(TRUE, raw.json, raw.obj)
    ELSE json_loads(~raw.prose, raw.json, raw.obj)

------------------------------------------------------------------------------
(* Trace sink and call events *)

Event(span, op, kind, scores) ==
    [span |-> span, op |-> op, kind |-> kind, scores |-> scores]

\* scores={"overall": 0}
OverallZero == {[dim |-> "overall", score_type |-> "num", score |-> 0]}

\* {k: v["score"] for k, v in scores.items() if isinstance(v, dict) and "score" in v}
LoggedScores(scores) ==
    {[dim |-> d, score_type |-> scores[d].score_type, score |-> scores[d].score] :
        d \in {k \in DOMAIN scores \cap DimSet :
                  scores[k].isdict /\ scores[k].score_type # "missing"}}

\* Mutant: the except branch without the child span being ended.
run_eval_except_no_end(model) ==
    <<Event(model, "log", "error", OverallZero),
      Event(model, "return", "", {})>>

\* the except branch of run_eval
run_eval_except(model) ==
    <<Event(model, "log", "error", OverallZero),
      Event(model, "end", "", {}),
      Event(model, "return", "", {})>>

\* run_eval(client, model, span): the events it emits, in order, and the
\* value it returns
run_eval(model, resp) ==
    LET opened == <<Event(model, "start_span", "", {}),
                    Event(model, "create", "", {})>>
        parsed == parse_scores(resp.raw)
    IN  IF resp.status = "raise" \/ parsed.exc # "" \/ ~parsed.isdict
        THEN [events |-> opened \o run_eval_except(model), value |-> EmptyDict]
        ELSE [events |-> opened \o
                         <<Event(model, "log", "output", LoggedScores(parsed.value)),
                           Event(model, "end", "", {}),
                           Event(model, "return", "", {})>>,
              value |-> parsed.value]

\* Mutant: `if result is not None:`, which keeps the failure marker {}.
Truthy_not_none(result) == TRUE

\* `if result:` in the loop over MODELS
Truthy(result) == DOMAIN result # {}

------------------------------------------------------------------------------
(* State *)

VARIABLES
    script,         \* "iter_eval" | "ci_comment" | "reconcile" (the function alone)
    pc,             \* position in the script
    unavailable,    \* context pieces the environment could not provide
    task_text, diff_stat, diff_content, check_log,
    scoring_prompt, \* the pieces embedded in the prompt, <<>> before it is built
    idx,            \* position of the loop over MODELS
    received,       \* the response each invoked reviewer gave, in order
    model_results,
    final,
    exc,            \* the exception being propagated or handled, "" when none
    events,         \* trace sink and reviewer calls, in program order
    outfile,        \* documents written to eval-iter-<N>.json
    stdout,         \* JSON documents printed
    pr_body, pr_title, ci_summary, trello_info,
    scores, reasons, verdict,
    comment         \* PR comments posted

vars == <<script, pc, unavailable, task_text, diff_stat, diff_content, check_log,
          scoring_prompt, idx, received, model_results, final, exc, events,
          outfile, stdout, pr_body, pr_title, ci_summary, trello_info, scores, reasons,
          verdict, comment>>

ctx_vars == <<task_text, diff_stat, diff_content, check_log>>
eval_vars == <<idx, received, model_results, final>>
out_vars == <<outfile, stdout>>
ci_vars == <<pr_body, pr_title, ci_summary, trello_info, scores, reasons, verdict, comment>>

\* the state every script starts from
Start(s, p, evals) ==
    /\ script = s
    /\ pc = p
    /\ unavailable = {}
    /\ task_text = "" /\ diff_stat = "" /\ diff_content = "" /\ check_log = ""
    /\ scoring_prompt = <<>>
    /\ idx = 1
    /\ received = <<>>
    /\ model_results = evals
    /\ final = EmptyDict
    /\ exc = ""
    /\ events = <<>>
    /\ outfile = <<>>
    /\ stdout = <<>>
    /\ pr_body = [text |-> "", task_section |-> FALSE, trello_link |-> FALSE]
    /\ pr_title = "" /\ ci_summary = "" /\ trello_info = ""
    /\ scores = EmptyDict /\ reasons = EmptyDict /\ verdict = ""
    /\ comment = <<>>

------------------------------------------------------------------------------
(* iter_eval.py *)

ParentSpan == "iter-eval"

\* task_text = (RUN_DIR / "task.md").read_text() if it exists else ""
LoadTask ==
    /\ script = "iter_eval" /\ pc = "load_task"
    /\ \E exists \in BOOLEAN :
          /\ task_text' = IF exists THEN "task" ELSE ""
          /\ unavailable' = IF exists THEN unavailable ELSE unavailable \cup {"task"}
    /\ pc' = "gather_diff"
    /\ UNCHANGED <<script, diff_stat, diff_content, check_log, scoring_prompt,
                   eval_vars, exc, events, out_vars, ci_vars>>

\* the two git diff calls inside one try: a failure of the first skips the
\* second, a failure of the second keeps the first's output
GatherDiff ==
    /\ script = "iter_eval" /\ pc = "gather_diff"
    /\ \E stat_ok \in BOOLEAN, diff_ok \in BOOLEAN :
          /\ diff_stat' = IF stat_ok THEN "stat" ELSE ""
          /\ diff_content' = IF stat_ok /\ diff_ok THEN "diff" ELSE ""
          /\ unavailable' = unavailable
                \cup (IF stat_ok THEN {} ELSE {"diff_stat"})
                \cup (IF diff_ok THEN {} ELSE {"diff_content"})
    /\ pc' = "check_log"
    /\ UNCHANGED <<script, task_text, check_log, scoring_prompt, eval_vars, exc,
                   events, out_vars, ci_vars>>

\* check_log = check_file.read_text()[-3000:] if check_file.exists()
LoadCheckLog ==
    /\ script = "iter_eval" /\ pc = "check_log"
    /\ \E exists \in BOOLEAN :
          /\ check_log' = IF exists THEN "log" ELSE ""
          /\ unavailable' = IF exists THEN unavailable ELSE unavailable \cup {"check_log"}
    /\ pc' = "build_prompt"
    /\ UNCHANGED <<script, task_text, diff_stat, diff_content, scoring_prompt,
                   eval_vars, exc, events, out_vars, ci_vars>>

\* scoring_prompt = f"""...{task_text}...{check_log or "(no check output)"}..."""
BuildPrompt ==
    /\ script = "iter_eval" /\ pc = "build_prompt"
    /\ scoring_prompt' = <<task_text, diff_stat, diff_content,
                           IF check_log = "" THEN "(no check output)" ELSE check_log>>
    /\ pc' = "start_span"
    /\ UNCHANGED <<script, unavailable, ctx_vars, eval_vars, exc, events,
                   out_vars, ci_vars>>

\* logger = braintrust.init_logger(...); span = logger.start_span(...);
\* then, inside the try, the client and model_results = [] (the client is
\* built with an api_key that defaults to "", which the constructor accepts)
StartSpan ==
    /\ script = "iter_eval" /\ pc = "start_span"
    /\ events' = Append(events, Event(ParentSpan, "start_span", "", {}))
    /\ model_results' = <<>>
    /\ pc' = "loop"
    /\ UNCHANGED <<script, unavailable, ctx_vars, scoring_prompt, idx, received,
                   final, exc, out_vars, ci_vars>>

\* one iteration of `for model in MODELS`: run_eval, then `if result: append`
RunEval ==
    /\ script = "iter_eval" /\ pc = "loop" /\ idx <= Len(MODELS)
    /\ \E resp \in Responses :
          LET r == run_eval(MODELS[idx], resp)
          IN  /\ received' = Append(received, resp)
              /\ events' = events \o r.events
              /\ model_results' = IF Truthy(r.value)
                                  THEN Append(model_results, r.value)
                                  ELSE model_results
    /\ idx' = idx + 1
    /\ UNCHANGED <<script, pc, unavailable, ctx_vars, scoring_prompt, final, exc,
                   out_vars, ci_vars>>

\* final = reconcile(model_results); an exception goes to the except branch
Reconcile ==
    /\ script = "iter_eval" /\ pc = "loop" /\ idx > Len(MODELS)
    /\ LET r == reconcile(model_results)
       IN  /\ final' = r.value
           /\ exc' = r.exc
           /\ pc' = IF r.exc = "" THEN "report" ELSE "except"
    /\ UNCHANGED <<script, unavailable, ctx_vars, scoring_prompt, idx, received,
                   model_results, events, out_vars, ci_vars>>

\* final.get(dim, {}) followed by .get('score', 0) and .get('reason', 'N/A')
SummaryLine(f, dim) ==
    IF dim \in DOMAIN f
    THEN [score |-> f[dim].score, reason |-> f[dim].reason]
    ELSE [score |-> 0, reason |-> <<"N/A">>]

\* the markdown summary of a reconciled record
Markdown(f, n) ==
    [failed   |-> FALSE,
     verdict  |-> IF "verdict" \in DOMAIN f THEN f["verdict"] ELSE "UNKNOWN",
     overall  |-> SummaryLine(f, "overall"),
     n_models |-> n,
     lines    |-> [d \in DimSet \ {"overall"} |-> SummaryLine(f, d)]]

\* {k: v["score"] for k, v in final.items() if isinstance(v, dict) and "score" in v}
FinalScores(f) ==
    {[dim |-> d, score_type |-> "num", score |-> f[d].score] : d \in DOMAIN f \cap DimSet}

\* span.log(...), the write of eval-iter-<N>.json, the summary and the print
Report ==
    /\ script = "iter_eval" /\ pc = "report"
    /\ events' = Append(events, Event(ParentSpan, "log", "output", FinalScores(final)))
    /\ outfile' = Append(outfile, [reconciled |-> final, per_model |-> model_results])
    /\ stdout' = Append(stdout, [scores |-> final,
                                 markdown |-> Markdown(final, Len(model_results))])
    /\ pc' = "finally"
    /\ UNCHANGED <<script, unavailable, ctx_vars, scoring_prompt, eval_vars, exc,
                   ci_vars>>

\* except Exception as e: log the error with overall 0, print "Eval failed"
HandleException ==
    /\ script = "iter_eval" /\ pc = "except"
    /\ events' = Append(events, Event(ParentSpan, "log", "error", OverallZero))
    /\ stdout' = Append(stdout, [scores |-> EmptyDict,
                                 markdown |-> [Markdown(EmptyDict, 0) EXCEPT !.failed = TRUE]])
    /\ exc' = ""
    /\ pc' = "finally"
    /\ UNCHANGED <<script, unavailable, ctx_vars, scoring_prompt, eval_vars,
                   outfile, ci_vars>>

\* finally: span.end(); logger.flush()
Finally ==
    /\ script = "iter_eval" /\ pc = "finally"
    /\ events' = events \o <<Event(ParentSpan, "end", "", {}),
                             Event(ParentSpan, "flush", "", {})>>
    /\ pc' = "done"
    /\ UNCHANGED <<script, unavailable, ctx_vars, scoring_prompt, eval_vars, exc,
                   out_vars, ci_vars>>

IterNext ==
    \/ LoadTask \/ GatherDiff \/ LoadCheckLog \/ BuildPrompt \/ StartSpan
    \/ RunEval \/ Reconcile \/ Report \/ HandleException \/ Finally

------------------------------------------------------------------------------
(* ci_comment.py *)

PrBody(text, task_section, trello_link) ==
    [text |-> text, task_section |-> task_section, trello_link |-> trello_link]

\* PR bodies: empty, plain, with a "### Task" section, with a Trello link
PrBodies ==
    {PrBody("", FALSE, FALSE), PrBody("body", FALSE, FALSE),
     PrBody("body", TRUE, FALSE), PrBody("body", FALSE, TRUE)}

\* sys.exit(1) when PR_NUMBER or GITHUB_REPOSITORY is not set
CiCheckEnv ==
    /\ script = "ci_comment" /\ pc = "check_env"
    /\ \E set \in BOOLEAN : pc' = IF set THEN "pr_body" ELSE "exit"
    /\ UNCHANGED <<script, unavailable, ctx_vars, scoring_prompt, eval_vars, exc,
                   events, out_vars, ci_vars>>

\* subprocess.check_output(["gh", ...]) outside any try: a failing command
\* raises CalledProcessError, which ends the script
GhFails(piece) ==
    /\ unavailable' = unavailable \cup {piece}
    /\ exc' = "CalledProcessError"
    /\ pc' = "crashed"

CiGetPrBody ==
    /\ script = "ci_comment" /\ pc = "pr_body"
    /\ \/ /\ \E body \in PrBodies : pr_body' = body
          /\ pc' = "pr_title"
          /\ UNCHANGED <<unavailable, exc>>
       \/ /\ GhFails("pr_body")
          /\ UNCHANGED pr_body
    /\ UNCHANGED <<script, ctx_vars, scoring_prompt, eval_vars, events, out_vars,
                   pr_title, ci_summary, trello_info, scores, reasons, verdict, comment>>

CiGetPrTitle ==
    /\ script = "ci_comment" /\ pc = "pr_title"
    /\ \/ /\ pr_title' = "title"
          /\ pc' = "diff_stat"
          /\ UNCHANGED <<unavailable, exc>>
       \/ /\ GhFails("pr_title")
          /\ UNCHANGED pr_title
    /\ UNCHANGED <<script, ctx_vars, scoring_prompt, eval_vars, events, out_vars,
                   pr_body, ci_summary, trello_info, scores, reasons, verdict, comment>>

CiGetDiffStat ==
    /\ script = "ci_comment" /\ pc = "diff_stat"
    /\ \/ /\ diff_stat' = "stat"
          /\ pc' = "diff_content"
          /\ UNCHANGED <<unavailable, exc>>
       \/ /\ GhFails("diff_stat")
          /\ UNCHANGED diff_stat
    /\ UNCHANGED <<script, task_text, diff_content, check_log, scoring_prompt,
                   eval_vars, events, out_vars, ci_vars>>

CiGetDiff ==
    /\ script = "ci_comment" /\ pc = "diff_content"
    /\ \/ /\ diff_content' = "diff"
          /\ pc' = "checks"
          /\ UNCHANGED <<unavailable, exc>>
       \/ /\ GhFails("diff_content")
          /\ UNCHANGED diff_content
    /\ UNCHANGED <<script, task_text, diff_stat, check_log, scoring_prompt,
                   eval_vars, events, out_vars, ci_vars>>

\* gh pr checks, json.loads and the joined summary (empty for no checks)
CiGetChecks ==
    /\ script = "ci_comment" /\ pc = "checks"
    /\ \/ /\ \E summary \in {"", "checks"} : ci_summary' = summary
          /\ pc' = "extract_task"
          /\ UNCHANGED <<unavailable, exc>>
       \/ /\ GhFails("checks")
          /\ UNCHANGED ci_summary
    /\ UNCHANGED <<script, ctx_vars, scoring_prompt, eval_vars, events, out_vars,
                   pr_body, pr_title, trello_info, scores, reasons, verdict, comment>>

\* task_text = pr_body, or the text between "### Task" and "---"
CiExtractTask ==
    /\ script = "ci_comment" /\ pc = "extract_task"
    /\ task_text' = IF pr_body.task_section THEN "task" ELSE pr_body.text
    /\ pc' = "trello"
    /\ UNCHANGED <<script, unavailable, diff_stat, diff_content, check_log,
                   scoring_prompt, eval_vars, exc, events, out_vars, ci_vars>>

\* the Trello card, fetched inside try/except Exception: pass
CiTrello ==
    /\ script = "ci_comment" /\ pc = "trello"
    /\ IF pr_body.trello_link
       THEN \E outcome \in {"no_credentials", "error", "card"} :
               trello_info' = IF outcome = "card" THEN "card" ELSE ""
       ELSE trello_info' = ""
    /\ pc' = "build_prompt"
    /\ UNCHANGED <<script, unavailable, ctx_vars, scoring_prompt, eval_vars, exc,
                   events, out_vars, pr_body, pr_title, ci_summary, scores, reasons,
                   verdict, comment>>

CiBuildPrompt ==
    /\ script = "ci_comment" /\ pc = "build_prompt"
    /\ scoring_prompt' = <<task_text,
                           IF trello_info = "" THEN "(no Trello card linked)" ELSE trello_info,
                           pr_title, diff_stat, diff_content, ci_summary>>
    /\ pc' = "call"
    /\ UNCHANGED <<script, unavailable, ctx_vars, eval_vars, exc, events, out_vars,
                   ci_vars>>

\* client.chat.completions.create(...) outside any try
CiCallReviewer ==
    /\ script = "ci_comment" /\ pc = "call"
    /\ \E resp \in Responses :
          /\ received' = Append(received, resp)
          /\ events' = Append(events, Event(MODELS[1], "create", "", {}))
          /\ exc' = IF resp.status = "raise" THEN "APIError" ELSE ""
          /\ pc' = IF resp.status = "raise" THEN "crashed" ELSE "parse"
    /\ UNCHANGED <<script, unavailable, ctx_vars, scoring_prompt, idx,
                   model_results, final, out_vars, ci_vars>>

\* re.search(r'```json\s*(.*?)\s*```', raw): the labelled block, else the raw
\* text as it is, fences included
ci_parse(raw) ==
    IF raw.fence = "json" THEN json_loads(TRUE, raw.json, raw.obj)
    ELSE json_loads(raw.fence = "none" /\ ~raw.prose, raw.json, raw.obj)

\* the exception of float(entry.get("score", 0.0)) for key, "" when none
ExtractError(scores_json, key) ==
    IF key \notin DOMAIN scores_json THEN ""
    ELSE IF ~scores_json[key].isdict THEN "AttributeError"
    ELSE IF scores_json[key].score_type = "str" THEN "ValueError"
    ELSE ""

\* scores[key] = float(entry.get("score", 0.0))
ExtractScore(scores_json, key) ==
    IF key \in DOMAIN scores_json /\ scores_json[key].score_type = "num"
    THEN scores_json[key].score ELSE 0

\* reasons[key] = entry.get("reason", "")
ExtractReason(scores_json, key) ==
    IF key \in DOMAIN scores_json /\ scores_json[key].has_reason
    THEN scores_json[key].reason ELSE ""

\* lines 160-171: decode, then scores, reasons and verdict
CiParse ==
    /\ script = "ci_comment" /\ pc = "parse"
    /\ LET parsed == ci_parse(received[1].raw)
           badk == {k \in 1..Len(dims) : ExtractError(parsed.value, dims[k]) # ""}
           err == IF parsed.exc # "" THEN parsed.exc
                  ELSE IF ~parsed.isdict THEN "AttributeError"
                  ELSE IF badk # {}
                  THEN ExtractError(parsed.value,
                                    dims[CHOOSE x \in badk : \A y \in badk : x <= y])
                  ELSE ""
       IN  IF err # ""
           THEN /\ exc' = err
                /\ pc' = "crashed"
                /\ UNCHANGED <<scores, reasons, verdict>>
           ELSE /\ scores' = [d \in DimSet |-> ExtractScore(parsed.value, d)]
                /\ reasons' = [d \in DimSet |-> ExtractReason(parsed.value, d)]
                /\ verdict' = IF "verdict" \in DOMAIN parsed.value
                              THEN parsed.value["verdict"] ELSE "UNKNOWN"
                /\ pc' = "log"
                /\ UNCHANGED exc
    /\ UNCHANGED <<script, unavailable, ctx_vars, scoring_prompt, eval_vars, events,
                   out_vars, pr_body, pr_title, ci_summary, trello_info, comment>>

\* logger.log(input=..., output={"verdict": verdict, ...}, scores=scores, ...)
CiLog ==
    /\ script = "ci_comment" /\ pc = "log"
    /\ events' = Append(events,
          Event("ci-pr-scorer", "log", "output",
                {[dim |-> d, score_type |-> "num", score |-> scores[d]] : d \in DimSet}))
    /\ pc' = "post"
    /\ UNCHANGED <<script, unavailable, ctx_vars, scoring_prompt, eval_vars, exc,
                   out_vars, ci_vars>>

\* verdict_emoji = {...}.get(verdict, "?") and the gh pr comment
CiPostComment ==
    /\ script = "ci_comment" /\ pc = "post"
    /\ IF verdict = Unhashable
       THEN /\ exc' = "TypeError"
            /\ pc' = "crashed"
            /\ UNCHANGED comment
       ELSE /\ comment' = Append(comment, [verdict |-> verdict, scores |-> scores,
                                            reasons |-> reasons])
            /\ pc' = "done"
            /\ UNCHANGED exc
    /\ UNCHANGED <<script, unavailable, ctx_vars, scoring_prompt, eval_vars, events,
                   out_vars, pr_body, pr_title, ci_summary, trello_info, scores,
                   reasons, verdict>>

CiNext ==
    \/ CiCheckEnv \/ CiGetPrBody \/ CiGetPrTitle \/ CiGetDiffStat \/ CiGetDiff
    \/ CiGetChecks \/ CiExtractTask \/ CiTrello \/ CiBuildPrompt
    \/ CiCallReviewer \/ CiParse \/ CiLog \/ CiPostComment

------------------------------------------------------------------------------
(* Specifications *)

\* both hooks, each from its first statement
Init ==
    \/ Start("iter_eval", "load_task", <<>>)
    \/ Start("ci_comment", "check_env", <<>>)

Next == IterNext \/ CiNext

Spec == Init /\ [][Next]_vars

\* records handed to reconcile when it is checked as a function
ReconcileInputs ==
    {WithVerdict(Full(s), v) : s \in {875, 500}, v \in {"PASS", "NEEDS_WORK", "FAIL"}}
    \cup {WithVerdict(o, "PASS") : o \in Layouts \ {Full(875), Full(500)}}
    \cup {WithVerdict([d \in DimSet \ {"completeness"} |-> NumEntry(750)], "FAIL"),
          WithVerdict(Full(125), "MAYBE"), WithVerdict(Full(1000), Unhashable),
          Full(750), ("error" :> "overloaded")}

EvalSeqs == UNION {[1..n -> ReconcileInputs] : n \in 0..MaxEvals}

ReconcileInit == \E evals \in EvalSeqs : Start("reconcile", "call", evals)

\* final = reconcile(evals), or the exception it raises
CallReconcile ==
    /\ script = "reconcile" /\ pc = "call"
    /\ LET r == reconcile(model_results)
       IN  /\ final' = r.value
           /\ exc' = r.exc
    /\ pc' = "returned"
    /\ UNCHANGED <<script, unavailable, ctx_vars, scoring_prompt, idx, received,
                   model_results, events, out_vars, ci_vars>>

SpecReconcile == ReconcileInit /\ [][CallReconcile]_vars

------------------------------------------------------------------------------
(* Vocabulary of the properties *)

ValidVerdicts == {"PASS", "NEEDS_WORK", "FAIL"}

\* e is a score record: each dimension it holds is an object with a numeric
\* score, and its verdict is one of the three
ScoreRecord(e) ==
    /\ \A d \in DOMAIN e \cap DimSet : e[d].isdict /\ e[d].score_type = "num"
    /\ "verdict" \in DOMAIN e
    /\ e["verdict"] \in ValidVerdicts

\* e is a full score record: a score record with all six dimensions
FullScoreRecord(e) == ScoreRecord(e) /\ DimSet \subseteq DOMAIN e

AllScoreRecords(evals) ==
    evals # <<>> /\ \A k \in 1..Len(evals) : ScoreRecord(evals[k])

\* the minimum of the verdicts under FAIL < NEEDS_WORK < PASS
LowestVerdict(evals) ==
    IF \E k \in 1..Len(evals) : evals[k]["verdict"] = "FAIL" THEN "FAIL"
    ELSE IF \E k \in 1..Len(evals) : evals[k]["verdict"] = "NEEDS_WORK" THEN "NEEDS_WORK"
    ELSE "PASS"

\* positions of the records that contain dimension d
Containing(evals, d) == {k \in 1..Len(evals) : d \in DOMAIN evals[k]}

RECURSIVE SumOver(_, _, _)
SumOver(evals, d, ks) ==
    IF ks = {} THEN 0
    ELSE LET k == CHOOSE x \in ks : TRUE
         IN  evals[k][d].score + SumOver(evals, d, ks \ {k})

Returned == script = "reconcile" /\ pc = "returned"

\* the reviewer's invocation failed: the call raised, or its text does not
\* decode to an object
ReviewerFailed(resp) ==
    \/ resp.status = "raise"
    \/ resp.raw.json # "object"
    \/ (resp.raw.fence = "none" /\ resp.raw.prose)

\* events of the given span and operation
EventsOf(span, op) ==
    {k \in 1..Len(events) : events[k].span = span /\ events[k].op = op}

\* failure entries (an error logged with overall 0) of a reviewer
FailureEntries(model) ==
    {k \in EventsOf(model, "log") :
        events[k].kind = "error" /\ events[k].scores = OverallZero}

LoopDone == script = "iter_eval" /\ idx > Len(MODELS)

\* the usable records of the reviewers heard so far, in MODELS order
RECURSIVE UsableRecords(_)
UsableRecords(resps) ==
    IF resps = <<>> THEN <<>>
    ELSE LET rest == UsableRecords(SubSeq(resps, 1, Len(resps) - 1))
             last == resps[Len(resps)]
         IN  IF ~ReviewerFailed(last) /\ DOMAIN last.raw.obj # {}
             THEN Append(rest, last.raw.obj)
             ELSE rest

------------------------------------------------------------------------------
(* C1 *)

\* C1: for every non-empty list of score records (verdicts in PASS,
\* NEEDS_WORK, FAIL) reconcile returns, and its verdict is the minimum of the
\* input verdicts under FAIL < NEEDS_WORK < PASS: FAIL as soon as one input is
\* FAIL, PASS only when every input is PASS.
C1_VerdictIsMinimum ==
    (Returned /\ AllScoreRecords(model_results)) =>
        /\ exc = ""
        /\ "verdict" \in DOMAIN final
        /\ final["verdict"] = LowestVerdict(model_results)

\* a lenient first reviewer and a failing later one reconcile to FAIL
C1_Witness ==
    /\ Returned /\ AllScoreRecords(model_results)
    /\ Len(model_results) >= 2
    /\ model_results[1]["verdict"] = "PASS"
    /\ model_results[Len(model_results)]["verdict"] = "FAIL"
    /\ exc = "" /\ final["verdict"] = "FAIL"

------------------------------------------------------------------------------
(* C6 *)

\* C6 as stated: for every non-empty list of score records, each dimension
\* held by at least one record is reconciled to exactly the arithmetic mean of
\* its scores over the records that hold it, and a dimension held by none is
\* omitted.
C6_ExactMean ==
    (Returned /\ AllScoreRecords(model_results)) =>
        /\ exc = ""
        /\ \A d \in DimSet :
              LET ks == Containing(model_results, d)
              IN  IF ks = {} THEN d \notin DOMAIN final
                  ELSE /\ d \in DOMAIN final
                       /\ final[d].score * Cardinality(ks) = SumOver(model_results, d, ks)

\* C6 amended: the reconciled score is that mean rounded to two decimals
\* (a whole number of hundredths, at most half a hundredth from the mean, the
\* even one when the mean is halfway), and a dimension held by no record is
\* omitted.
C6_RoundedMean ==
    (Returned /\ AllScoreRecords(model_results)) =>
        /\ exc = ""
        /\ \A d \in DimSet :
              LET ks == Containing(model_results, d)
                  n == Cardinality(ks)
                  total == SumOver(model_results, d, ks)
              IN  IF ks = {} THEN d \notin DOMAIN final
                  ELSE /\ d \in DOMAIN final
                       /\ final[d].score % 10 = 0
                       /\ 2 * (final[d].score * n - total) <= 10 * n
                       /\ 2 * (total - final[d].score * n) <= 10 * n
                       /\ (2 * (final[d].score * n - total) \in {10 * n, -10 * n}
                              => (final[d].score \div 10) % 2 = 0)

\* a dimension held by only some of the records, a mean that is not a whole
\* number of hundredths, and a dimension held by none
C6_Witness ==
    /\ Returned /\ AllScoreRecords(model_results) /\ exc = ""
    /\ \E d \in DOMAIN final \cap DimSet :
          Cardinality(Containing(model_results, d)) < Len(model_results)
    /\ \E d \in DOMAIN final \cap DimSet :
          LET ks == Containing(model_results, d)
          IN  final[d].score * Cardinality(ks) # SumOver(model_results, d, ks)
    /\ \E d \in DimSet : d \notin DOMAIN final

------------------------------------------------------------------------------
(* C2 *)

------------------------------------------------------------------------------
(* C3 *)

\* C3: no failure of a single reviewer (transport error, undecodable response,
\* or an object of the wrong shape) aborts the evaluation: when at least one
\* reviewer produced a full score record, the run ends with a reconciled
\* result, never with the "Eval failed" outcome and empty scores.
C3_NeverAborts ==
    (/\ script = "iter_eval"
     /\ pc = "done"
     /\ \E k \in 1..Len(received) :
           ~ReviewerFailed(received[k]) /\ FullScoreRecord(received[k].raw.obj)) =>
        /\ Len(received) = Len(MODELS)
        /\ Len(stdout) = 1
        /\ ~stdout[1].markdown.failed
        /\ DOMAIN stdout[1].scores # {}

------------------------------------------------------------------------------
(* C4 *)

\* C4: every score record produced from a response that decodes holds all six
\* dimensions, each with a numeric score, a missing or non-numeric one being
\* filled in as 0.0 without an error: for the records of iter_eval.py handed
\* to reconcile, and for the scores ci_comment.py builds.
C4_SixNumericDimensions ==
    /\ script = "iter_eval" =>
          \A k \in 1..Len(model_results) :
             \A d \in DimSet :
                /\ d \in DOMAIN model_results[k]
                /\ model_results[k][d].isdict
                /\ model_results[k][d].score_type = "num"
    /\ (/\ script = "ci_comment"
        /\ received # <<>>
        /\ ~ReviewerFailed(received[1])
        /\ received[1].raw.fence = "json"
        /\ \A d \in DOMAIN received[1].raw.obj \cap DimSet : received[1].raw.obj[d].isdict) =>
          exc \notin {"ValueError", "AttributeError"}

------------------------------------------------------------------------------
(* C5 *)

\* C5: the verdict of every score record and of every non-empty reconciled
\* result is PASS, NEEDS_WORK or FAIL; no other value is reported, persisted
\* or posted as the verdict of a decoded record.
C5_VerdictInEnumeration ==
    /\ script = "iter_eval" =>
          /\ "verdict" \in DOMAIN final => final["verdict"] \in ValidVerdicts
          /\ \A k \in 1..Len(outfile) :
                /\ "verdict" \in DOMAIN outfile[k].reconciled =>
                       outfile[k].reconciled["verdict"] \in ValidVerdicts
                /\ \A j \in 1..Len(outfile[k].per_model) :
                       "verdict" \in DOMAIN outfile[k].per_model[j] =>
                           outfile[k].per_model[j]["verdict"] \in ValidVerdicts
          /\ \A k \in 1..Len(stdout) :
                stdout[k].markdown.n_models > 0 =>
                    stdout[k].markdown.verdict \in ValidVerdicts
    /\ script = "ci_comment" =>
          /\ pc \in {"log", "post", "done"} => verdict \in ValidVerdicts
          /\ \A k \in 1..Len(comment) : comment[k].verdict \in ValidVerdicts

------------------------------------------------------------------------------
(* C7 *)

AllReviewersFailed ==
    /\ LoopDone
    /\ \A k \in 1..Len(received) : ReviewerFailed(received[k])

\* C7: reconcile of the empty list returns the empty result without raising,
\* and a run in which every reviewer fails ends without an exception: it
\* prints empty scores with a summary and writes a document with an empty
\* reconciled record and no per-reviewer record.
C7_EmptyReconciliation ==
    AllReviewersFailed =>
        /\ model_results = <<>>
        /\ pc # "except" /\ exc = ""
        /\ final = EmptyDict
        /\ pc \in {"finally", "done"} =>
              /\ outfile = <<[reconciled |-> EmptyDict, per_model |-> <<>>]>>
              /\ Len(stdout) = 1
              /\ stdout[1].scores = EmptyDict
              /\ ~stdout[1].markdown.failed
              /\ stdout[1].markdown.verdict = "UNKNOWN"
              /\ stdout[1].markdown.n_models = 0
              /\ stdout[1].markdown.overall = [score |-> 0, reason |-> <<"N/A">>]

\* both reviewers failed in different ways and the run completed
C7_Witness ==
    /\ AllReviewersFailed
    /\ pc = "done"
    /\ received[1].status = "raise"
    /\ received[2].status = "ok"
    /\ Len(stdout) = 1 /\ Len(outfile) = 1

------------------------------------------------------------------------------
(* C8 *)

\* C8: a piece of context that is unavailable degrades to the empty string and
\* never ends the run, in iter_eval.py and in ci_comment.py alike.
C8_ContextNeverFatal ==
    /\ ("task" \in unavailable /\ script = "iter_eval") => task_text = ""
    /\ "diff_stat" \in unavailable => diff_stat = ""
    /\ "diff_content" \in unavailable => diff_content = ""
    /\ "check_log" \in unavailable => check_log = ""
    /\ "checks" \in unavailable => ci_summary = ""
    /\ unavailable # {} => ~(pc = "crashed" /\ received = <<>>)

------------------------------------------------------------------------------
(* C9 *)

\* the only event of the span with that operation
TheEvent(span, op) == CHOOSE k \in EventsOf(span, op) : TRUE

\* C9: in every run each reviewer of MODELS is invoked exactly once, with
\* exactly one child span opened for it, logged once and ended before
\* run_eval returns and before the parent span is ended and flushed.
C9_OneInvocationOneSpan ==
    script = "iter_eval" =>
        /\ \A k \in 1..Len(MODELS) :
              \A op \in {"start_span", "create", "log", "end", "return"} :
                 Cardinality(EventsOf(MODELS[k], op)) = IF k < idx THEN 1 ELSE 0
        /\ \A k \in 1..(idx - 1) :
              /\ TheEvent(MODELS[k], "start_span") < TheEvent(MODELS[k], "create")
              /\ TheEvent(MODELS[k], "create") < TheEvent(MODELS[k], "log")
              /\ TheEvent(MODELS[k], "log") < TheEvent(MODELS[k], "end")
              /\ TheEvent(MODELS[k], "end") < TheEvent(MODELS[k], "return")
              /\ events[TheEvent(MODELS[k], "log")].kind
                    = IF Cardinality(FailureEntries(MODELS[k])) = 1 THEN "error" ELSE "output"
        /\ EventsOf(ParentSpan, "end") # {} =>
              /\ idx = Len(MODELS) + 1
              /\ \A k \in 1..Len(MODELS) :
                    TheEvent(MODELS[k], "return") < TheEvent(ParentSpan, "end")
              /\ TheEvent(ParentSpan, "end") < TheEvent(ParentSpan, "flush")
        /\ pc = "done" => EventsOf(ParentSpan, "end") # {}

\* a run that ended after the first reviewer failed and the second answered
C9_Witness ==
    /\ script = "iter_eval" /\ pc = "done"
    /\ Cardinality(FailureEntries(MODELS[1])) = 1
    /\ Cardinality(FailureEntries(MODELS[2])) = 0
    /\ Cardinality(EventsOf(MODELS[2], "create")) = 1

------------------------------------------------------------------------------
(* C10 *)

\* C10: once the loop over MODELS is done every reviewer is accounted for
\* exactly once: either its record is in the list handed to reconcile, or a
\* failure entry with overall 0 was recorded for it.
C10_EveryReviewerAccounted ==
    LoopDone =>
        Len(model_results)
          + Cardinality({k \in 1..Len(MODELS) : FailureEntries(MODELS[k]) # {}})
          = Len(MODELS)

====
